---- MODULE Spec2Model ----
(***************************************************************************)
(* Model of src/tests/noise_test/clouds_bw.py: thresholded fractal Perlin  *)
(* noise (perlin2d, fbm) and the mask pipeline of main().                  *)
(*                                                                         *)
(* Numbers.  The program computes in float64/float32.  The model computes  *)
(* in exact rationals <<num, den>> (den > 0, lowest terms) over inputs     *)
(* whose values have small denominators.  On such values float32 rounding  *)
(* is injective, and the additive guard 1e-12 (lines 126, 147) is far      *)
(* below half a float32 ulp of any non-zero model value, so it only shows  *)
(* when the quantity it is added to is zero; DivEps models exactly that.   *)
(***************************************************************************)
EXTENDS Integers, Sequences, FiniteSets, TLC

(***************************************************************************)
(* Bounds of the model                                                     *)
(***************************************************************************)
\* main(): canvas sizes 1 .. MaxWidth x 1 .. MaxHeight, padding 0 .. MaxPadding
MaxWidth == 3
MaxHeight == 3
MaxPadding == 2
\* fbm() on its own: sizes 0 .. MaxDim, octaves 0 .. MaxOctaves
MaxDim == 2
MaxOctaves == 2
\* grad_at on its own: lattice coordinates -MaxProbe .. MaxProbe
MaxProbe == 4

(***************************************************************************)
(* Exact rational arithmetic                                               *)
(***************************************************************************)
Abs(a) == IF a < 0 THEN -a ELSE a

Max(a, b) == IF a >= b THEN a ELSE b

Min(a, b) == IF a <= b THEN a ELSE b

RECURSIVE GCD(_, _)
GCD(a, b) == IF b = 0 THEN a ELSE GCD(b, a % b)

\* The rational n/d in lowest terms with a positive denominator (d # 0).
Rat(n, d) ==
    LET g == GCD(Abs(n), Abs(d))
        s == IF d < 0 THEN -1 ELSE 1
    IN  <<(s * n) \div g, (s * d) \div g>>

R(k) == <<k, 1>>

RZero == <<0, 1>>

ROne == <<1, 1>>

RNeg(a) == <<-a[1], a[2]>>

RAdd(a, b) ==
    LET g == GCD(a[2], b[2])
        l == (a[2] \div g) * b[2]
    IN  Rat(a[1] * (l \div a[2]) + b[1] * (l \div b[2]), l)

RSub(a, b) == RAdd(a, RNeg(b))

RMul(a, b) ==
    LET x == Rat(a[1], b[2])
        y == Rat(b[1], a[2])
    IN  <<x[1] * y[1], x[2] * y[2]>>

\* a / b for b # 0
RDiv(a, b) == RMul(a, Rat(b[2], b[1]))

RLt(a, b) ==
    LET g == GCD(a[2], b[2])
    IN  a[1] * (b[2] \div g) < b[1] * (a[2] \div g)

RLe(a, b) == ~RLt(b, a)

RMin(a, b) == IF RLe(a, b) THEN a ELSE b

RMax(a, b) == IF RLe(a, b) THEN b ELSE a

\* math.floor / np.floor: TLA+ \div rounds toward minus infinity
RFloor(a) == a[1] \div a[2]

\* a non-negative integer power, by repeated multiplication
RECURSIVE RPow(_, _)
RPow(a, k) == IF k = 0 THEN ROne ELSE RMul(a, RPow(a, k - 1))

\* Variant of Clip01 for C5: the clip of line 148 left out
Clip01Missing(v) == v

\* np.clip(v, 0.0, 1.0); <<1, 0>> and <<-1, 0>> are DivEps's out-of-scale
\* quotients
Clip01(v) ==
    IF v[2] = 0 THEN (IF v[1] > 0 THEN ROne ELSE RZero)
    ELSE RMax(RZero, RMin(v, ROne))

\* Python 3 round(): to the nearest integer, ties to the even one
PyRound(a) ==
    LET f == RFloor(a)
        r == RSub(a, R(f))
        half == <<1, 2>>
    IN  IF RLt(r, half) THEN f
        ELSE IF RLt(half, r) THEN f + 1
        ELSE IF f % 2 = 0 THEN f ELSE f + 1

SetMin(S) == CHOOSE m \in S : \A x \in S : m <= x

SetMax(S) == CHOOSE m \in S : \A x \in S : m >= x

RSetMin(S) == CHOOSE m \in S : \A x \in S : RLe(m, x)

RSetMax(S) == CHOOSE m \in S : \A x \in S : RLe(x, m)

(***************************************************************************)
(* fade, lerp (lines 19-25)                                                *)
(***************************************************************************)
\* 6t^5 - 15t^4 + 10t^3, evaluated in the code's Horner form
fade(t) ==
    RMul(RMul(RMul(t, t), t),
         RAdd(RMul(t, RSub(RMul(t, R(6)), R(15))), R(10)))

lerp(a, b, t) == RAdd(a, RMul(t, RSub(b, a)))

(***************************************************************************)
(* perlin2d (lines 28-127)                                                 *)
(***************************************************************************)
\* The pixels of a (height, width) array, as <<row, column>>.
Pixels(width, height) == (0 .. height - 1) \X (0 .. width - 1)

\* rng.uniform(0, 2*pi): the k-th draw of the generator seeded with seed.
\* The generator is a fixed deterministic stream per seed; the model draws
\* quarter-turn angles, whose cosine and sine are rational.
NumAngles == 4

Draw(seed, k) ==
    ((seed % 11) * 3 + (seed \div 11) + ((k * (k + 3)) \div 2) + k * (seed % 3)) % NumAngles

\* (cos, sin) of angle index a
UnitVec(a) ==
    CASE a = 0 -> <<R(1), R(0)>>
      [] a = 1 -> <<R(0), R(1)>>
      [] a = 2 -> <<R(-1), R(0)>>
      [] OTHER -> <<R(0), R(-1)>>

\* np.linspace(0, stop, num, endpoint=False)[i] = i * (stop / num)
Linspace(stop, num, i) == RMul(R(i), RDiv(stop, R(num)))

\* Variant of TileGrid for C10: int() without round(), which truncates
TileGridTruncated(dim, scale) == Max(1, RFloor(RDiv(R(dim), scale)))

\* grid_w / grid_h of the tileable branch (lines 41-42)
TileGrid(dim, scale) == Max(1, PyRound(RDiv(R(dim), scale)))

\* xs / ys (lines 45-46 and 70-71): the noise-space coordinate of sample i
Coord(dim, scale, tileable, i) ==
    IF tileable THEN Linspace(R(TileGrid(dim, scale)), dim, i)
    ELSE Linspace(RDiv(R(dim), scale), dim, i)

\* gx_min, gx_max (lines 84-85); the axis has dim >= 1 samples
BoxMin(dim, scale) ==
    SetMin({RFloor(Coord(dim, scale, FALSE, i)) : i \in 0 .. dim - 1})

BoxMax(dim, scale) ==
    SetMax({RFloor(Coord(dim, scale, FALSE, i)) + 1 : i \in 0 .. dim - 1})

\* grid_w / grid_h of either branch (lines 41-42, 87-88)
GridSize(dim, scale, tileable) ==
    IF tileable THEN TileGrid(dim, scale)
    ELSE BoxMax(dim, scale) - BoxMin(dim, scale) + 1

\* grads (lines 59-60, 90-91): row-major fill of a (grid_h, grid_w) array
Grads(seed, grid_w, gj, gi) == UnitVec(Draw(seed, gj * grid_w + gi))

\* Variant of TileIndex for C7: the index clamped into the array, not wrapped
TileIndexClamped(ix, n) == Max(0, Min(ix, n - 1))

\* Wrap of the tileable grad_at (lines 64-65); % is floored for n > 0
TileIndex(ix, n) == ix % n

\* Integer indexing of a numpy axis of length n: a negative index counts
\* from the end, anything outside -n .. n-1 raises IndexError (-1 here).
NumpyIndex(i, n) ==
    IF 0 <= i /\ i < n THEN i
    ELSE IF -n <= i /\ i < 0 THEN i + n
    ELSE -1

\* Offset of the non-tileable grad_at (lines 95-96)
BoxIndex(ix, lo) == ix - lo

\* grad_at (lines 62-67, 93-98) on one lattice coordinate pair: the array
\* indices it reads, or "IndexError".
AxisIndex(k, n, lo, tileable) ==
    NumpyIndex(IF tileable THEN TileIndex(k, n) ELSE BoxIndex(k, lo), n)

Indexed(nj, ni) ==
    IF ni = -1 \/ nj = -1 THEN [err |-> "IndexError", gj |-> -1, gi |-> -1]
    ELSE [err |-> "none", gj |-> nj, gi |-> ni]

GradIndex(ix, iy, grid_w, grid_h, gx_min, gy_min, tileable) ==
    Indexed(AxisIndex(iy, grid_h, gy_min, tileable),
            AxisIndex(ix, grid_w, gx_min, tileable))

\* a / (r + 1e-12) as a float32 (lines 126, 147), see the header.  With
\* r = 0 and a # 0 the quotient a * 1e12 is beyond every model value: it is
\* kept as the signed symbol <<+-1, 0>>.
DivEps(a, r) ==
    IF r # RZero THEN RDiv(a, r)
    ELSE IF a = RZero THEN RZero
    ELSE IF a[1] > 0 THEN <<1, 0>> ELSE <<-1, 0>>

\* The lattice a perlin2d call builds (lines 41-42, 59-60, 84-91)
LatticeDims(width, height, scale, seed, tileable) ==
    [tileable |-> tileable, seed |-> seed,
     grid_w |-> GridSize(width, scale, tileable),
     grid_h |-> GridSize(height, scale, tileable),
     gx_min |-> IF tileable THEN 0 ELSE BoxMin(width, scale),
     gy_min |-> IF tileable THEN 0 ELSE BoxMin(height, scale)]

\* grad_at of a built lattice: the gradient returned, or the error raised
GradOf(l, k) ==
    IF k.err # "none" THEN [err |-> k.err, gj |-> -1, gi |-> -1, g |-> <<>>]
    ELSE [err |-> "none", gj |-> k.gj, gi |-> k.gi,
          g |-> Grads(l.seed, l.grid_w, k.gj, k.gi)]

grad_at(l, ix, iy) ==
    GradOf(l, GradIndex(ix, iy, l.grid_w, l.grid_h, l.gx_min, l.gy_min, l.tileable))

\* One corner's dot product (lines 113-116)
CornerDot(g, dx, dy) == RAdd(RMul(g[1], dx), RMul(g[2], dy))

\* lines 121-123
Blend(n00, n10, n01, n11, u, v) == lerp(lerp(n00, n10, u), lerp(n01, n11, u), v)

\* lines 100-123 for one sample in cell (x0, y0) at offset (sx, sy); the
\* corners the code asks for lie inside the lattice
Interpolate(l, x0, y0, sx, sy) ==
    Blend(CornerDot(grad_at(l, x0, y0).g, sx, sy),
          CornerDot(grad_at(l, x0 + 1, y0).g, RSub(sx, ROne), sy),
          CornerDot(grad_at(l, x0, y0 + 1).g, sx, RSub(sy, ROne)),
          CornerDot(grad_at(l, x0 + 1, y0 + 1).g, RSub(sx, ROne), RSub(sy, ROne)),
          fade(sx), fade(sy))

\* lines 49-56, 74-81: the cell of a sample and its offset in the cell
InCell(l, x, y, x0, y0) == Interpolate(l, x0, y0, RSub(x, R(x0)), RSub(y, R(y0)))

Sample(l, x, y) == InCell(l, x, y, RFloor(x), RFloor(y))

\* The raw noise field nxy before normalisation (lines 39-123)
RawField(l, width, height, scale) ==
    [p \in Pixels(width, height) |->
        Sample(l, Coord(width, scale, l.tileable, p[2]),
                  Coord(height, scale, l.tileable, p[1]))]

\* Min-max normalisation (line 126)
Rescale(raw, lo, hi) ==
    [p \in DOMAIN raw |-> DivEps(RSub(raw[p], lo), RSub(hi, lo))]

Range(raw) == {raw[p] : p \in DOMAIN raw}

Normalize(raw) == Rescale(raw, RSetMin(Range(raw)), RSetMax(Range(raw)))

\* The locals of one perlin2d call that the lattice claims are about
LatticeOf(l, raw, width, height, scale) ==
    [valid |-> TRUE, tileable |-> l.tileable, width |-> width, height |-> height,
     scale |-> scale, seed |-> l.seed,
     grid_w |-> l.grid_w, grid_h |-> l.grid_h,
     gx_min |-> l.gx_min, gy_min |-> l.gy_min,
     xs |-> [k \in 0 .. width - 1 |-> Coord(width, scale, l.tileable, k)],
     ys |-> [k \in 0 .. height - 1 |-> Coord(height, scale, l.tileable, k)],
     raw_const |-> Cardinality(Range(raw)) = 1]

NoLattice ==
    [valid |-> FALSE, tileable |-> FALSE, width |-> 0, height |-> 0,
     scale |-> RZero, seed |-> 0, grid_w |-> 0, grid_h |-> 0,
     gx_min |-> 0, gy_min |-> 0, xs |-> <<>>, ys |-> <<>>, raw_const |-> FALSE]

Returned(l, raw, width, height, scale) ==
    [err |-> "none", field |-> Normalize(raw),
     lat |-> LatticeOf(l, raw, width, height, scale)]

Evaluate(l, width, height, scale) ==
    Returned(l, RawField(l, width, height, scale), width, height, scale)

\* perlin2d: the error it raises, or the field it returns (with the locals
\* above).  A reduction (.min(), .max()) over an empty array raises
\* ValueError.
perlin2d(width, height, scale, seed, tileable) ==
    IF RLe(scale, RZero)
    THEN [err |-> "ValueError", field |-> <<>>, lat |-> NoLattice]
    ELSE IF width <= 0 \/ height <= 0
    THEN [err |-> "ValueError", field |-> <<>>, lat |-> NoLattice]
    ELSE Evaluate(LatticeDims(width, height, scale, seed, tileable),
                  width, height, scale)

(***************************************************************************)
(* fbm (lines 130-149): per-octave parameters                              *)
(***************************************************************************)
\* Variant of OctaveSeed for C6: the offset counted from 1
OctaveSeedShifted(seed, i) == seed + 1013 * (i + 1)

\* seed=seed + 1013 * i (line 141)
OctaveSeed(seed, i) == seed + 1013 * i

\* amp *= gain (line 144)
NextAmp(amp, gain) == RMul(amp, gain)

\* Variant of NextScale for C8: the scale multiplied, not divided
NextScaleMultiplied(scale, lacunarity) == RMul(scale, lacunarity)

\* scale /= lacunarity (line 145), lacunarity # 0
NextScale(scale, lacunarity) == RDiv(scale, lacunarity)

(***************************************************************************)
(* main (lines 186-228): the stages                                        *)
(***************************************************************************)
\* (n * 255).astype(np.uint8) (line 191): truncation, modulo 2^8
ToUint8(v) == RFloor(RMul(v, R(255))) % 256

\* ImageFilter.GaussianBlur(radius) (lines 192, 226) is the image library's.
\* The model stands a box mean over the (2r+1)^2 window in for it, the
\* image extended by its edge pixels, rounded to the nearest 8-bit value.
RECURSIVE WindowSum(_, _, _, _, _)
WindowSum(im, width, height, p, S) ==
    IF S = {} THEN 0
    ELSE LET d == CHOOSE d \in S : TRUE
             row == Max(0, Min(p[1] + d[1], height - 1))
             col == Max(0, Min(p[2] + d[2], width - 1))
         IN  im[<<row, col>>] + WindowSum(im, width, height, p, S \ {d})

GaussianBlur(im, width, height, radius) ==
    LET win == (-radius .. radius) \X (-radius .. radius)
        cnt == (2 * radius + 1) * (2 * radius + 1)
    IN  [p \in DOMAIN im |->
            (2 * WindowSum(im, width, height, p, win) + cnt) \div (2 * cnt)]

\* Variant of EdgeRamp for C4: the far edge taken at dim, not dim - 1
EdgeRampOffByOne(x, dim, padding) ==
    fade(RMin(Clip01(Rat(x, padding)), Clip01(Rat(dim - x, padding))))

\* np.clip(x / padding, 0, 1) and np.clip((w - 1 - x) / padding, 0, 1),
\* their minimum, through fade (lines 202-211)
EdgeRamp(x, dim, padding) ==
    LET near == Clip01(Rat(x, padding))
        far == Clip01(Rat(dim - 1 - x, padding))
    IN  fade(RMin(near, far))

\* mask = np.outer(mask_y, mask_x) (line 213)
FalloffMask(width, height, padding) ==
    [p \in Pixels(width, height) |->
        RMul(EdgeRamp(p[1], height, padding), EdgeRamp(p[2], width, padding))]

\* Variant of ThresholdPixel for C3: an inclusive comparison
ThresholdPixelInclusive(v, threshold) == IF RLe(threshold, v) THEN 255 ELSE 0

\* (n > threshold) * 255 (line 217)
ThresholdPixel(v, threshold) == IF RLt(threshold, v) THEN 255 ELSE 0

\* Variant of StageAfter for C1: padding applied after the threshold
StageAfterSwapped(s) ==
    CASE s = "fbm" -> "bias"
      [] s = "bias" -> "smooth"
      [] s = "smooth" -> "threshold"
      [] s = "threshold" -> "padding"
      [] s = "padding" -> "invert"
      [] s = "invert" -> "feather"
      [] s = "feather" -> "save"
      [] OTHER -> "done"

\* The order in which main visits its stages (lines 175-228)
StageAfter(s) ==
    CASE s = "fbm" -> "bias"
      [] s = "bias" -> "smooth"
      [] s = "smooth" -> "padding"
      [] s = "padding" -> "threshold"
      [] s = "threshold" -> "invert"
      [] s = "invert" -> "feather"
      [] s = "feather" -> "save"
      [] OTHER -> "done"

(***************************************************************************)
(* State                                                                   *)
(***************************************************************************)
VARIABLES
    args,       \* the parsed command line (lines 157-173), fixed for the run
    pc,         \* where the run is
    i,          \* fbm: the loop index
    total,      \* fbm: the accumulated field
    amp,        \* fbm: the current octave weight
    amp_sum,    \* fbm: the sum of the weights
    scale,      \* fbm: the current octave scale
    oct,        \* fbm: n, the field the last perlin2d call returned
    lat,        \* perlin2d: the lattice locals of the last call
    n,          \* main: the float field
    mask,       \* main: the falloff mask
    bw,         \* main: the thresholded 8-bit field
    img,        \* main: the image handed to save
    out,        \* the file written by img.save
    err,        \* the exception that ended the run, or "none"
    evals,      \* history: the perlin2d calls that returned, in order
    stages,     \* history: the stages that ran, with input and output
    probe       \* grad_at on its own: the last lookup and its result

vars == <<args, pc, i, total, amp, amp_sum, scale, oct, lat, n, mask, bw,
          img, out, err, evals, stages, probe>>

fbmVars == <<i, total, amp, amp_sum, scale, oct, lat, evals>>

NoProbe ==
    [made |-> FALSE, ix |-> 0, iy |-> 0,
     res |-> [err |-> "none", gj |-> -1, gi |-> -1, g |-> <<>>]]

(***************************************************************************)
(* Inputs                                                                  *)
(***************************************************************************)
ScaleSet == {R(0), <<2, 3>>, R(1), R(2), R(4)}

LacunaritySet == {R(-1), R(0), R(2)}

GainSet == {R(-2), R(-1), <<1, 2>>}

SeedSet == {0, 7}

\* fbm's callers in general, on canvases of the given sizes; the mask
\* options stay at their defaults
FbmArgs(widths, heights) ==
    [width : widths, height : heights, base_scale : ScaleSet,
     octaves : 0 .. MaxOctaves, lacunarity : LacunaritySet, gain : GainSet,
     seed : SeedSet, tileable : BOOLEAN,
     bias_power : {1}, threshold : {<<11, 20>>}, invert : {FALSE},
     padding : {0}, smooth : {3}, feather : {5}]

\* whole runs of main on a positive canvas, over non-tileable noise (the
\* tileable lattice is exercised under FbmSpec)
MainArgs ==
    [width : 1 .. MaxWidth, height : 1 .. MaxHeight, base_scale : {R(2)},
     octaves : {1, 2}, lacunarity : {R(2)}, gain : {<<1, 2>>},
     seed : SeedSet, tileable : {FALSE},
     bias_power : {1, 2}, threshold : {RZero, <<1, 2>>}, invert : BOOLEAN,
     padding : 0 .. MaxPadding, smooth : {0, 1}, feather : {0, 1}]

\* lattices of perlin2d calls, for lookups at arbitrary coordinates
LookupArgs ==
    [width : 1 .. MaxWidth, height : 1 .. MaxHeight, scale : {R(1), R(2), R(4)},
     seed : SeedSet, tileable : BOOLEAN]

Blank(a) ==
    /\ args = a
    /\ i = 0
    /\ total = <<>>
    /\ amp = ROne
    /\ amp_sum = RZero
    /\ scale = RZero
    /\ oct = <<>>
    /\ n = <<>>
    /\ mask = <<>>
    /\ bw = <<>>
    /\ img = <<>>
    /\ out = <<>>
    /\ err = "none"
    /\ evals = <<>>
    /\ stages = <<>>
    /\ probe = NoProbe

\* the state when main calls fbm (line 175)
Start(a) ==
    /\ Blank(a)
    /\ pc = "start"
    /\ lat = NoLattice

Init == \E a \in MainArgs : Start(a)

\* fbm called on a canvas with pixels, or on an empty one
FbmInit ==
    \/ \E a \in FbmArgs(1 .. MaxDim, 1 .. MaxDim) : Start(a)
    \/ \E a \in FbmArgs({0}, 0 .. MaxDim) \cup FbmArgs(1 .. MaxDim, {0}) : Start(a)

(***************************************************************************)
(* fbm (lines 130-149)                                                     *)
(***************************************************************************)
Raise(e) ==
    /\ pc' = "error"
    /\ err' = e

\* lines 135-138: np.zeros refuses a negative dimension
FbmEnter ==
    /\ pc = "start"
    /\ i' = 0
    /\ amp' = ROne
    /\ amp_sum' = RZero
    /\ scale' = args.base_scale
    /\ IF args.width < 0 \/ args.height < 0
       THEN Raise("ValueError") /\ total' = total
       ELSE /\ total' = [p \in Pixels(args.width, args.height) |-> RZero]
            /\ pc' = "fbm"
            /\ err' = err
    /\ UNCHANGED <<args, oct, lat, n, mask, bw, img, out, evals, stages, probe>>

\* lines 141-145 given what the perlin2d call did
OctaveStep(r) ==
    IF r.err # "none"
    THEN /\ Raise(r.err)
         /\ UNCHANGED fbmVars
    ELSE /\ oct' = r.field
         /\ lat' = r.lat
         /\ evals' = Append(evals, [i |-> i, scale |-> scale,
                                    seed |-> r.lat.seed, amp |-> amp])
         /\ total' = [p \in DOMAIN total |-> RAdd(total[p], RMul(r.field[p], amp))]
         /\ amp_sum' = RAdd(amp_sum, amp)
         /\ amp' = NextAmp(amp, args.gain)
         /\ IF args.lacunarity = RZero
            THEN Raise("ZeroDivisionError") /\ scale' = scale /\ i' = i
            ELSE /\ scale' = NextScale(scale, args.lacunarity)
                 /\ i' = i + 1
                 /\ UNCHANGED <<pc, err>>

\* lines 140-145: one iteration of the loop
FbmOctave ==
    /\ pc = "fbm"
    /\ i < args.octaves
    /\ OctaveStep(perlin2d(args.width, args.height, scale,
                           OctaveSeed(args.seed, i), args.tileable))
    /\ UNCHANGED <<args, n, mask, bw, img, out, stages, probe>>

\* lines 147-149, and the assignment of line 175
FbmReturn ==
    /\ pc = "fbm"
    /\ i >= args.octaves
    /\ total' = [p \in DOMAIN total |-> Clip01(DivEps(total[p], amp_sum))]
    /\ n' = total'
    /\ stages' = Append(stages, [name |-> "fbm", input |-> <<>>, output |-> n'])
    /\ pc' = StageAfter("fbm")
    /\ UNCHANGED <<args, i, amp, amp_sum, scale, oct, lat, mask, bw, img, out,
                   err, evals, probe>>

(***************************************************************************)
(* main (lines 186-228)                                                    *)
(***************************************************************************)
Ran(name, input, output) ==
    stages' = Append(stages, [name |-> name, input |-> input, output |-> output])

\* lines 186-187
Bias ==
    /\ pc = "bias"
    /\ IF args.bias_power # 1
       THEN /\ n' = [p \in DOMAIN n |-> RPow(Clip01(n[p]), args.bias_power)]
            /\ Ran("bias", n, n')
       ELSE UNCHANGED <<n, stages>>
    /\ pc' = StageAfter("bias")
    /\ UNCHANGED <<args, mask, bw, img, out, err, probe>>
    /\ UNCHANGED fbmVars

\* lines 190-193
Smooth ==
    /\ pc = "smooth"
    /\ IF args.smooth > 0
       THEN /\ n' = LET n_img == [p \in DOMAIN n |-> ToUint8(n[p])]
                        blurred == GaussianBlur(n_img, args.width, args.height,
                                                args.smooth)
                    IN  [p \in DOMAIN n |-> Rat(blurred[p], 255)]
            /\ Ran("smooth", n, n')
       ELSE UNCHANGED <<n, stages>>
    /\ pc' = StageAfter("smooth")
    /\ UNCHANGED <<args, mask, bw, img, out, err, probe>>
    /\ UNCHANGED fbmVars

\* lines 196-214
Padding ==
    /\ pc = "padding"
    /\ IF args.padding > 0
       THEN /\ mask' = FalloffMask(args.width, args.height, args.padding)
            /\ n' = [p \in DOMAIN n |-> RMul(n[p], mask'[p])]
            /\ Ran("padding", n, n')
       ELSE UNCHANGED <<n, mask, stages>>
    /\ pc' = StageAfter("padding")
    /\ UNCHANGED <<args, bw, img, out, err, probe>>
    /\ UNCHANGED fbmVars

\* line 217
Threshold ==
    /\ pc = "threshold"
    /\ bw' = [p \in DOMAIN n |-> ThresholdPixel(n[p], args.threshold)]
    /\ Ran("threshold", n, bw')
    /\ pc' = StageAfter("threshold")
    /\ UNCHANGED <<args, n, mask, img, out, err, probe>>
    /\ UNCHANGED fbmVars

\* lines 219-222
Invert ==
    /\ pc = "invert"
    /\ IF args.invert
       THEN /\ bw' = [p \in DOMAIN bw |-> 255 - bw[p]]
            /\ Ran("invert", bw, bw')
       ELSE UNCHANGED <<bw, stages>>
    /\ img' = bw'
    /\ pc' = StageAfter("invert")
    /\ UNCHANGED <<args, n, mask, out, err, probe>>
    /\ UNCHANGED fbmVars

\* lines 225-226
Feather ==
    /\ pc = "feather"
    /\ IF args.feather > 0
       THEN /\ img' = GaussianBlur(img, args.width, args.height, args.feather)
            /\ Ran("feather", img, img')
       ELSE UNCHANGED <<img, stages>>
    /\ pc' = StageAfter("feather")
    /\ UNCHANGED <<args, n, mask, bw, out, err, probe>>
    /\ UNCHANGED fbmVars

\* line 228
Save ==
    /\ pc = "save"
    /\ out' = img
    /\ pc' = StageAfter("save")
    /\ UNCHANGED <<args, n, mask, bw, img, err, stages, probe>>
    /\ UNCHANGED fbmVars

Next ==
    \/ FbmEnter
    \/ FbmOctave
    \/ FbmReturn
    \/ Bias
    \/ Smooth
    \/ Padding
    \/ Threshold
    \/ Invert
    \/ Feather
    \/ Save

Spec == Init /\ [][Next]_vars

\* fbm as a function of its arguments: the run up to fbm's return
FbmNext ==
    \/ FbmEnter
    \/ FbmOctave
    \/ FbmReturn

FbmSpec == FbmInit /\ [][FbmNext]_vars

(***************************************************************************)
(* grad_at as a function of a built lattice and a coordinate pair          *)
(***************************************************************************)
\* the state inside a perlin2d call once its lattice is built (line 98)
LookupInit ==
    \E a \in LookupArgs :
        /\ Blank([width |-> a.width, height |-> a.height, base_scale |-> a.scale,
                  octaves |-> 1, lacunarity |-> R(2), gain |-> <<1, 2>>,
                  seed |-> a.seed, tileable |-> a.tileable, bias_power |-> 1,
                  threshold |-> <<11, 20>>, invert |-> FALSE, padding |-> 0,
                  smooth |-> 3, feather |-> 5])
        /\ pc = "lookup"
        /\ lat = perlin2d(a.width, a.height, a.scale, a.seed, a.tileable).lat

\* one call grad_at(ix, iy) (lines 62-67, 93-98)
Lookup ==
    /\ pc = "lookup"
    /\ \E ix \in -MaxProbe .. MaxProbe, iy \in -MaxProbe .. MaxProbe :
           probe' = [made |-> TRUE, ix |-> ix, iy |-> iy, res |-> grad_at(lat, ix, iy)]
    /\ UNCHANGED <<args, pc, n, mask, bw, img, out, err, stages>>
    /\ UNCHANGED fbmVars

LookupNext == Lookup

LookupSpec == LookupInit /\ [][LookupNext]_vars

(***************************************************************************)
(* Properties                                                              *)
(***************************************************************************)
\* fbm has returned its field to main (line 175)
FbmReturned == Len(stages) >= 1

In01(f) == \A p \in DOMAIN f : f[p][2] > 0 /\ RLe(RZero, f[p]) /\ RLe(f[p], ROne)

Half == <<1, 2>>

RDist(a, b) == IF RLe(a, b) THEN RSub(b, a) ELSE RSub(a, b)

StageRank(name) ==
    CASE name = "fbm" -> 0
      [] name = "bias" -> 1
      [] name = "smooth" -> 2
      [] name = "padding" -> 3
      [] name = "threshold" -> 4
      [] name = "invert" -> 5
      [] name = "feather" -> 6
      [] OTHER -> 7

\* C1: the stages that run do so in the order bias, smooth, padding,
\* threshold, invert, feather, each at most once, each on the output of the
\* stage that ran before it (the fbm field for the first), and the image
\* saved is the output of the last.
C1_StageOrder ==
    /\ \A k \in 2 .. Len(stages) :
           /\ StageRank(stages[k - 1].name) < StageRank(stages[k].name)
           /\ stages[k].input = stages[k - 1].output
    /\ \A k \in 1 .. Len(stages) : StageRank(stages[k].name) < 7
    /\ pc = "done" => /\ out = stages[Len(stages)].output
                      /\ \E k \in 1 .. Len(stages) : stages[k].name = "threshold"

C1_Witness ==
    /\ pc = "done"
    /\ Len(stages) = 7
    /\ \A k \in {2, 3, 4, 6, 7} : stages[k].output # stages[k - 1].output

InvalidParameter(a) ==
    \/ RLe(a.base_scale, RZero)
    \/ a.width <= 0
    \/ a.height <= 0
    \/ a.octaves < 1

\* C2: a run whose parameters violate a precondition (scale <= 0,
\* width <= 0, height <= 0, octaves < 1) performs no noise evaluation and
\* returns no field.
C2_InvalidFailsFirst ==
    InvalidParameter(args) => evals = <<>> /\ ~FbmReturned

IsThresholded(b, f, t) ==
    \A p \in DOMAIN f :
        \/ b[p] = 255 /\ RLt(t, f[p])
        \/ b[p] = 0 /\ RLe(f[p], t)

\* C3: after the threshold stage every pixel is 255 where the field is
\* strictly above the threshold and 0 elsewhere, equality included; with
\* invert off that is still the image the feather stage receives.
C3_ThresholdBinary ==
    /\ pc = "invert" => DOMAIN bw = DOMAIN n /\ IsThresholded(bw, n, args.threshold)
    /\ (pc = "feather" /\ ~args.invert) =>
           DOMAIN img = DOMAIN n /\ IsThresholded(img, n, args.threshold)

C3_Witness ==
    /\ pc = "feather"
    /\ ~args.invert
    /\ args.threshold # RZero
    /\ \E p \in DOMAIN n : n[p] = args.threshold /\ img[p] = 0
    /\ \E p \in DOMAIN n : img[p] = 255

OnBorder(p) ==
    \/ p[1] = 0
    \/ p[1] = args.height - 1
    \/ p[2] = 0
    \/ p[2] = args.width - 1

Inside(p) ==
    /\ p[1] >= args.padding
    /\ args.height - 1 - p[1] >= args.padding
    /\ p[2] >= args.padding
    /\ args.width - 1 - p[2] >= args.padding

PaddingRan == \E k \in 1 .. Len(stages) : stages[k].name = "padding"

\* C4: with padding p > 0 the falloff mask is 0 on every border pixel and 1
\* on every pixel at distance >= p from all four borders.
C4_PaddingBoundary ==
    PaddingRan =>
        /\ DOMAIN mask = Pixels(args.width, args.height)
        /\ \A p \in DOMAIN mask :
               /\ OnBorder(p) => mask[p] = RZero
               /\ Inside(p) => mask[p] = ROne

C4_Witness ==
    /\ PaddingRan
    /\ \E p \in DOMAIN mask : Inside(p)
    /\ \E p \in DOMAIN mask : OnBorder(p)

\* C5: every field perlin2d returns and the field fbm returns lie in [0, 1].
C5_RangeInvariant ==
    /\ In01(oct)
    /\ FbmReturned => In01(n)

C5_Witness ==
    /\ FbmReturned
    /\ Len(evals) >= 2
    /\ RLe(amp_sum, RZero)
    /\ lat.raw_const
    /\ \E p \in DOMAIN total : total[p] # RZero

ProbeRange == -MaxProbe .. MaxProbe

SameGradient(a, b) == a.err = "none" /\ b.err = "none" /\ a.g = b.g

\* C7: in tileable mode the lookup at k and at k + grid_size return the same
\* gradient on either axis, and every lookup reads inside the lattice array.
C7_TileWrap ==
    (lat.valid /\ lat.tileable) =>
        \A ix \in ProbeRange : \A iy \in ProbeRange :
            /\ grad_at(lat, ix, iy).err = "none"
            /\ grad_at(lat, ix, iy).gi \in 0 .. lat.grid_w - 1
            /\ grad_at(lat, ix, iy).gj \in 0 .. lat.grid_h - 1
            /\ grad_at(lat, ix, iy).g = Grads(lat.seed, lat.grid_w,
                                              grad_at(lat, ix, iy).gj,
                                              grad_at(lat, ix, iy).gi)
            /\ SameGradient(grad_at(lat, ix, iy), grad_at(lat, ix + lat.grid_w, iy))
            /\ SameGradient(grad_at(lat, ix, iy), grad_at(lat, ix, iy + lat.grid_h))

\* a tileable lattice of two columns with different gradients, sampled in
\* its last column, so that the corner x0 + 1 is the cell count
C7_Witness ==
    /\ lat.valid
    /\ lat.tileable
    /\ lat.grid_w >= 2
    /\ \E k \in DOMAIN lat.xs : RFloor(lat.xs[k]) + 1 = lat.grid_w
    /\ grad_at(lat, 0, 0).g # grad_at(lat, lat.grid_w - 1, 0).g

\* C8: the k-th perlin2d call of fbm is octave i = k - 1, with
\* scale = base_scale / lacunarity^i, seed = seed + 1013 * i and weight
\* gain^i; an fbm that returns has made exactly octaves calls.
C8_OctaveSchedule ==
    /\ \A k \in 1 .. Len(evals) :
           evals[k] = [i |-> k - 1,
                       scale |-> RDiv(args.base_scale, RPow(args.lacunarity, k - 1)),
                       seed |-> args.seed + 1013 * (k - 1),
                       amp |-> RPow(args.gain, k - 1)]
    /\ Len(evals) <= Max(args.octaves, 0)
    /\ (FbmReturned /\ args.octaves >= 1) => Len(evals) = args.octaves

C8_Witness ==
    /\ FbmReturned
    /\ Len(evals) >= 2
    /\ evals[2].scale # evals[1].scale
    /\ evals[2].amp # evals[1].amp

OutsideBox(ix, iy) ==
    \/ ix < lat.gx_min
    \/ ix > lat.gx_min + lat.grid_w - 1
    \/ iy < lat.gy_min
    \/ iy > lat.gy_min + lat.grid_h - 1

\* C9: in non-tileable mode a lookup outside the bounding box raises an
\* error.
C9_OutOfBoxRaises ==
    (probe.made /\ ~lat.tileable /\ OutsideBox(probe.ix, probe.iy)) =>
        probe.res.err # "none"

RoundsTo(q, cells) == RLe(RDist(q, R(cells)), Half)

\* C10 (as stated): the tileable lattice has round(width / scale) by
\* round(height / scale) cells, whichever way a tie is rounded.
C10_RoundedCellCount ==
    (lat.valid /\ lat.tileable) =>
        /\ RoundsTo(RDiv(R(lat.width), lat.scale), lat.grid_w)
        /\ RoundsTo(RDiv(R(lat.height), lat.scale), lat.grid_h)

CellCount(q, cells) ==
    /\ cells >= 1
    /\ IF RLe(q, Half) THEN cells = 1
       ELSE /\ RoundsTo(q, cells)
            /\ RDist(q, R(cells)) = Half => cells % 2 = 0

Spans(xs, dim, cells) ==
    /\ DOMAIN xs = 0 .. dim - 1
    /\ \A k \in DOMAIN xs : xs[k] = Rat(k * cells, dim)

\* C10 (amended): the tileable lattice has max(1, round(width / scale)) by
\* max(1, round(height / scale)) cells, ties rounded to the even integer,
\* and sample k of an axis lies at k / dimension of that many cells.
C10_ClampedCellCount ==
    (lat.valid /\ lat.tileable) =>
        /\ CellCount(RDiv(R(lat.width), lat.scale), lat.grid_w)
        /\ CellCount(RDiv(R(lat.height), lat.scale), lat.grid_h)
        /\ Spans(lat.xs, lat.width, lat.grid_w)
        /\ Spans(lat.ys, lat.height, lat.grid_h)

C10_Witness ==
    /\ lat.valid
    /\ lat.tileable
    /\ RLt(RDiv(R(lat.width), lat.scale), Half)
    /\ lat.grid_w = 1
    /\ RDist(RDiv(R(lat.height), lat.scale), R(lat.grid_h)) = Half
====
